---------------------------- MODULE Spec2Model ----------------------------
(***************************************************************************)
(* A model of src/evaluation/evaluation.py: the spreadsheet evaluator.     *)
(* Python strings are modelled as sequences of one-character strings, so   *)
(* that splitting, stripping, classification of characters and number      *)
(* parsing are computed character by character as the code does.           *)
(***************************************************************************)
EXTENDS Integers, Sequences, FiniteSets, TLC

VARIABLES
    fn,               \* the function a harness run applies ("" in the batch run)
    arg,              \* its argument(s), with the files on disk when it reads any
    mid,              \* an intermediate value of a two-step run
    ret,              \* its outcome
    pc,               \* position of the run
    dataset,          \* evaluation: the loaded dataset (a sequence of tasks)
    idx,              \* evaluation: number of loop iterations completed
    eval_results,     \* evaluation: eval_results
    missing_files,    \* evaluation: missing_files
    total_evaluated,  \* evaluation: total_evaluated
    total_passed,     \* evaluation: total_passed
    result,           \* evaluation: local variable result
    message,          \* evaluation: local variable message
    report            \* evaluation: the written output_data (None before)

harnessVars == <<fn, arg, mid, ret>>
batchVars == <<dataset, idx, eval_results, missing_files, total_evaluated,
               total_passed, result, message, report>>
vars == <<fn, arg, mid, ret, pc, dataset, idx, eval_results, missing_files,
          total_evaluated, total_passed, result, message, report>>

\* Python's None, and a local variable that has not been assigned yet.
None == [t |-> "None"]
Unbound == [t |-> "unbound"]

\* A call either returns a value or raises an exception.
Ok(v) == [t |-> "ok", v |-> v]
Raise(e) == [t |-> "raise", e |-> e]
IsOk(o) == o.t = "ok"

-----------------------------------------------------------------------------
(* Bounds of the model *)

MaxCol == 20000
MaxNameLen == 2
MaxEndpointLen == 2
MaxSegments == 2
MaxTasks == 3

-----------------------------------------------------------------------------
(* Characters *)

UpperLetters == <<"A", "B", "C", "D", "E", "F", "G", "H", "I", "J", "K", "L", "M",
                  "N", "O", "P", "Q", "R", "S", "T", "U", "V", "W", "X", "Y", "Z">>
UpperSet == {UpperLetters[i] : i \in 1..26}
DigitChars == <<"0", "1", "2", "3", "4", "5", "6", "7", "8", "9">>
DigitSet == {DigitChars[i] : i \in 1..10}

\* ord(c), for the characters the model uses.
ord(c) ==
    IF c \in UpperSet THEN 64 + (CHOOSE i \in 1..26 : UpperLetters[i] = c)
    ELSE IF c \in DigitSet THEN 47 + (CHOOSE i \in 1..10 : DigitChars[i] = c)
    ELSE CASE c = "!" -> 33 [] c = "$" -> 36 [] c = "'" -> 39 [] c = "," -> 44
           [] c = "-" -> 45 [] c = "." -> 46 [] c = ":" -> 58 [] c = "a" -> 97
           [] c = "b" -> 98 [] c = "c" -> 99 [] c = "x" -> 120

\* chr(k), for the code points of the upper-case letters.
chr(k) == UpperLetters[k - 64]

\* str.isdigit() of one character.
isdigit(c) == c \in DigitSet

-----------------------------------------------------------------------------
(* Column names: col_num2name, col_name2num *)

RECURSIVE col_num2name_loop(_, _)
col_num2name_loop(n, name) ==
    IF n > 0
    THEN col_num2name_loop((n - 1) \div 26, <<chr(65 + ((n - 1) % 26))>> \o name)
    ELSE name

RECURSIVE col_num2name_mutant_loop(_, _)
col_num2name_mutant_loop(n, name) ==
    IF n > 0
    THEN col_num2name_mutant_loop(n \div 26, <<chr(65 + ((n - 1) % 26))>> \o name)
    ELSE name

\* The off-by-one slip: divmod(n, 26) where the code has divmod(n - 1, 26).
col_num2name_mutant(n) == col_num2name_mutant_loop(n, <<>>)

col_num2name(n) == col_num2name_loop(n, <<>>)

RECURSIVE col_name2num_loop(_, _)
col_name2num_loop(name, num) ==
    IF name = <<>> THEN num
    ELSE col_name2num_loop(Tail(name), num * 26 + (ord(Head(name)) - ord("A") + 1))

col_name2num(name) == col_name2num_loop(name, 0)

-----------------------------------------------------------------------------
(* Python string and integer primitives used by the code *)

\* s.split(sep) for a one-character separator: always at least one piece.
RECURSIVE split_loop(_, _, _, _)
split_loop(s, sep, piece, pieces) ==
    IF s = <<>> THEN Append(pieces, piece)
    ELSE IF Head(s) = sep
         THEN split_loop(Tail(s), sep, <<>>, Append(pieces, piece))
         ELSE split_loop(Tail(s), sep, Append(piece, Head(s)), pieces)

split(s, sep) == split_loop(s, sep, <<>>, <<>>)

\* c in s, for a one-character c.
contains(s, c) == \E i \in 1..Len(s) : s[i] = c

\* int(s) for a non-empty string of ASCII digits (int("") raises ValueError;
\* the callers test for it).
RECURSIVE int_loop(_, _)
int_loop(s, n) ==
    IF s = <<>> THEN n
    ELSE int_loop(Tail(s), n * 10 + (ord(Head(s)) - ord("0")))

int(s) == int_loop(s, 0)

\* str(n) for an integer n >= 0, as the f-string f"{col}{row}" formats the row.
RECURSIVE str_loop(_, _)
str_loop(n, s) ==
    IF n = 0 THEN s
    ELSE str_loop(n \div 10, <<DigitChars[(n % 10) + 1]>> \o s)

str(n) == IF n = 0 THEN <<"0">> ELSE str_loop(n, <<>>)

-----------------------------------------------------------------------------
(* Cell ranges: parse_cell_range, generate_cell_names *)

\* The loops of lines 99-111: digits go to the row, everything else to the column.
row_part(cell) == SelectSeq(cell, LAMBDA c : isdigit(c))
col_part(cell) == SelectSeq(cell, LAMBDA c : ~isdigit(c))

parse_cell_range(range_str) ==
    LET parts == split(range_str, ":")
    IN  IF Len(parts) # 2
        THEN Raise("ValueError")       \* start_cell, end_cell = ... cannot unpack
        ELSE LET start_col == col_part(parts[1])
                 start_row == row_part(parts[1])
                 end_col == col_part(parts[2])
                 end_row == row_part(parts[2])
             IN  IF start_row = <<>> \/ end_row = <<>>
                 THEN Raise("ValueError")      \* int("")
                 ELSE Ok(<< <<col_name2num(start_col), int(start_row)>>,
                            <<col_name2num(end_col), int(end_row)>> >>)

\* range(a, b + 1) as a sequence.
range_incl(a, b) == [i \in 1..(IF b < a THEN 0 ELSE b - a + 1) |-> a + i - 1]

\* Lines 124-127: the names of the columns, then one cell per column and row,
\* the rows of a column before the next column.
cells_of(start_col, end_col, start_row, end_row) ==
    LET cols == range_incl(start_col, end_col)
        columns == [i \in 1..Len(cols) |-> col_num2name(cols[i])]
        rows == range_incl(start_row, end_row)
    IN  [k \in 1..(Len(columns) * Len(rows)) |->
            columns[((k - 1) \div Len(rows)) + 1] \o str(rows[((k - 1) % Len(rows)) + 1])]

\* The slip of iterating rows in the outer loop: row-major order.
cells_of_rowmajor(start_col, end_col, start_row, end_row) ==
    LET cols == range_incl(start_col, end_col)
        columns == [i \in 1..Len(cols) |-> col_num2name(cols[i])]
        rows == range_incl(start_row, end_row)
    IN  [k \in 1..(Len(columns) * Len(rows)) |->
            columns[((k - 1) % Len(columns)) + 1] \o str(rows[((k - 1) \div Len(columns)) + 1])]

\* Lines 123-128, given what parse_cell_range returned or raised.
cells_of_parsed(p) ==
    IF ~IsOk(p) THEN p ELSE Ok(cells_of(p.v[1][1], p.v[2][1], p.v[1][2], p.v[2][2]))

cells_of_parsed_rowmajor(p) ==
    IF ~IsOk(p) THEN p ELSE Ok(cells_of_rowmajor(p.v[1][1], p.v[2][1], p.v[1][2], p.v[2][2]))

generate_cell_names_rowmajor(range_str) ==
    IF ~contains(range_str, ":")
    THEN Ok(<<range_str>>)
    ELSE cells_of_parsed_rowmajor(parse_cell_range(range_str))

generate_cell_names(range_str) ==
    IF ~contains(range_str, ":")
    THEN Ok(<<range_str>>)
    ELSE cells_of_parsed(parse_cell_range(range_str))

-----------------------------------------------------------------------------
(* Cell values: datetime_to_float, transform_value, compare_cell_value *)

(* A raw cell value is None, a number, a string, a time or a datetime.      *)
(*   [t |-> "num", v |-> k]   the int or float k / 1000                     *)
(*   [t |-> "str", s |-> cs]  the string cs                                 *)
(*   [t |-> "time", h, m, s]  datetime.time(h, m, s), no microseconds       *)
(*   [t |-> "datetime", days, seconds]  a datetime, given by its timedelta  *)
(*                            from 1899-12-30 (line 14)                     *)
(* A transformed value is None, a str, or a float [t |-> "float", v |-> k], *)
(* the float k / 100.                                                       *)
Num(k) == [t |-> "num", v |-> k]
Str(cs) == [t |-> "str", s |-> cs]
Float(k) == [t |-> "float", v |-> k]

\* Round n / d (d > 0) to the nearest integer, ties to the even one, as
\* Python's round does on a float that holds n / d exactly.
round_half_even(n, d) ==
    LET q == n \div d
        r == n % d
    IN  IF 2 * r < d THEN q
        ELSE IF 2 * r > d THEN q + 1
        ELSE IF q % 2 = 0 THEN q ELSE q + 1

\* Rounding towards the floor: what a truncating conversion would do.
round_floor(n, d) == n \div d

\* float(s): an optional '-', digits with at most one '.', at least one digit
\* (the part of Python's float syntax the model's strings exercise); the value
\* in thousandths, for at most three fractional digits.
float_of_str(s) ==
    LET neg == s # <<>> /\ Head(s) = "-"
        body == IF neg THEN Tail(s) ELSE s
        parts == split(body, ".")
        ip == parts[1]
        fp == IF Len(parts) = 2 THEN parts[2] ELSE <<>>
        digits(x) == \A i \in 1..Len(x) : isdigit(x[i])
        pad == [i \in 1..3 |-> IF i <= Len(fp) THEN fp[i] ELSE "0"]
        mag == int(ip) * 1000 + int(pad)
    IN  IF Len(parts) <= 2 /\ digits(ip) /\ digits(fp) /\ Len(ip) + Len(fp) >= 1
        THEN Ok(IF neg THEN 0 - mag ELSE mag)
        ELSE Raise("ValueError")

\* str(v) of a datetime.time without microseconds: "HH:MM:SS".
two_digits(n) == <<DigitChars[(n \div 10) + 1], DigitChars[(n % 10) + 1]>>
str_time(v) == two_digits(v.h) \o <<":">> \o two_digits(v.m) \o <<":">> \o two_digits(v.s)

\* round(datetime_to_float(v), 0): days + seconds / 86400 to the nearest day.
datetime_to_float_rounded(v) == round_half_even(v.days * 86400 + v.seconds, 86400)

\* s[:-3]
drop_last3(s) == SubSeq(s, 1, Len(s) - 3)

\* Lines 26-29, given what float(v) returned or raised.
rounded_or_same(v, f) == IF IsOk(f) THEN Float(round_half_even(f.v, 10)) ELSE v

\* The slip of truncating where the code rounds.
floored_or_same(v, f) == IF IsOk(f) THEN Float(round_floor(f.v, 10)) ELSE v
transform_value_floor(v) ==
    CASE v.t = "num" -> Float(round_floor(v.v, 10))
      [] v.t = "time" -> Str(drop_last3(str_time(v)))
      [] v.t = "datetime" -> Float(100 * datetime_to_float_rounded(v))
      [] v.t = "str" -> floored_or_same(v, float_of_str(v.s))
      [] OTHER -> v

transform_value(v) ==
    CASE v.t = "num" -> Float(round_half_even(v.v, 10))
      [] v.t = "time" -> Str(drop_last3(str_time(v)))
      [] v.t = "datetime" -> Float(100 * datetime_to_float_rounded(v))
      [] v.t = "str" -> rounded_or_same(v, float_of_str(v.s))
      [] OTHER -> v

\* Lines 36-46, on the two transformed values.
compare_transformed(t1, t2) ==
    IF (t1 = Str(<<>>) /\ t2 = None) \/ (t1 = None /\ t2 = Str(<<>>)) THEN TRUE
    ELSE IF (t1 = Str(<<>>) /\ t2 = Str(<<>>)) \/ (t1 = None /\ t2 = None) THEN TRUE
    ELSE IF t1.t # t2.t THEN FALSE
    ELSE t1 = t2

compare_cell_value(v1, v2) == compare_transformed(transform_value(v1), transform_value(v2))

-----------------------------------------------------------------------------
(* Colours: _get_color_rgb, _compare_colors, compare_fill_color,            *)
(* compare_font_color                                                       *)

(* A colour is None or an object [t |-> "Color", rgb |-> x] whose rgb is a  *)
(* string Str(cs), None, or some other object.                              *)
Color(x) == [t |-> "Color", rgb |-> x]
OtherObject == [t |-> "object"]
DefaultRgb == <<"0", "0", "0", "0", "0", "0", "0", "0">>

_get_color_rgb(color) ==
    IF color # None /\ color.rgb.t = "str" THEN color.rgb.s ELSE DefaultRgb

\* s[-6:]
last6(s) == SubSeq(s, IF Len(s) > 6 THEN Len(s) - 5 ELSE 1, Len(s))

\* The comparison before the alpha channel was dropped: the whole string.
_compare_colors_whole(color1, color2) == _get_color_rgb(color1) = _get_color_rgb(color2)

_compare_colors(color1, color2) ==
    last6(_get_color_rgb(color1)) = last6(_get_color_rgb(color2))

\* A fill is [fgColor |-> colour, bgColor |-> colour], a font [color |-> colour].
compare_fill_color(fill1, fill2) ==
    /\ _compare_colors(fill1.fgColor, fill2.fgColor)
    /\ _compare_colors(fill1.bgColor, fill2.bgColor)

compare_font_color(font_gt, font_proc) == _compare_colors(font_gt.color, font_proc.color)

-----------------------------------------------------------------------------
(* Workbooks, as openpyxl presents them to the code *)

(* A cell is [value, fill |-> [fgColor, bgColor], font |-> [color]]. A      *)
(* worksheet is a function from the names of its stored cells to cells; a   *)
(* cell that is not stored reads as the default cell. A workbook is         *)
(* [sheetnames |-> sequence of names, sheets |-> function from the names to *)
(* worksheets]. A diagnostic message is a record: Text(s) for a fixed       *)
(* string, or the fields the f-string of the message interpolates.          *)
Text(s) == [kind |-> "text", text |-> s]
Black == Color(Str(DefaultRgb))
Cell(v, fg, bg, fc) == [value |-> v, fill |-> [fgColor |-> fg, bgColor |-> bg],
                        font |-> [color |-> fc]]
DefaultCell == Cell(None, Black, Black, None)

\* ws[cell_name] yields a cell (and .value, .fill, .font can be read) only
\* for a coordinate: a column name followed by a row number >= 1.
valid_coordinate(name) ==
    /\ col_part(name) # <<>>
    /\ \A i \in 1..Len(col_part(name)) : col_part(name)[i] \in UpperSet
    /\ row_part(name) # <<>>
    /\ name = col_part(name) \o row_part(name)
    /\ int(row_part(name)) >= 1

cell_at(ws, name) == IF name \in DOMAIN ws THEN ws[name] ELSE DefaultCell

-----------------------------------------------------------------------------
(* cell_level_compare *)

\* Lines 143-158 for one cell: None when every check passes, else the message.
check_cell_style_first(name, cell_gt, cell_proc, is_CF) ==
    IF is_CF /\ ~compare_fill_color(cell_gt.fill, cell_proc.fill)
    THEN [kind |-> "fill", cell |-> name,
          gt |-> cell_gt.fill.fgColor.rgb, proc |-> cell_proc.fill.fgColor.rgb]
    ELSE IF ~compare_cell_value(cell_gt.value, cell_proc.value)
    THEN [kind |-> "value", cell |-> name, gt |-> cell_gt.value, proc |-> cell_proc.value]
    ELSE IF is_CF /\ ~compare_font_color(cell_gt.font, cell_proc.font)
    THEN [kind |-> "font", cell |-> name]
    ELSE None

check_cell(name, cell_gt, cell_proc, is_CF) ==
    IF ~compare_cell_value(cell_gt.value, cell_proc.value)
    THEN [kind |-> "value", cell |-> name, gt |-> cell_gt.value, proc |-> cell_proc.value]
    ELSE IF is_CF /\ ~compare_fill_color(cell_gt.fill, cell_proc.fill)
    THEN [kind |-> "fill", cell |-> name,
          gt |-> cell_gt.fill.fgColor.rgb, proc |-> cell_proc.fill.fgColor.rgb]
    ELSE IF is_CF /\ ~compare_font_color(cell_gt.font, cell_proc.font)
    THEN [kind |-> "font", cell |-> name]
    ELSE None

\* The loop of lines 139-161.
RECURSIVE compare_cells(_, _, _, _)
\* One iteration, given the message m of the cell's checks (None: all pass).
compare_cells_step(ws_gt, ws_proc, cell_names, is_CF, m) ==
    IF m # None THEN Ok(<<FALSE, m>>)
    ELSE compare_cells(ws_gt, ws_proc, Tail(cell_names), is_CF)

compare_cells(ws_gt, ws_proc, cell_names, is_CF) ==
    IF cell_names = <<>> THEN Ok(<<TRUE, Text("")>>)
    ELSE IF ~valid_coordinate(Head(cell_names)) THEN Raise("AttributeError")
    ELSE compare_cells_step(ws_gt, ws_proc, cell_names, is_CF,
             check_cell(Head(cell_names), cell_at(ws_gt, Head(cell_names)),
                        cell_at(ws_proc, Head(cell_names)), is_CF))

\* Lines 137-161, given what generate_cell_names returned or raised.
compare_named_cells(ws_gt, ws_proc, cell_names, is_CF) ==
    IF ~IsOk(cell_names) THEN cell_names
    ELSE compare_cells(ws_gt, ws_proc, cell_names.v, is_CF)

cell_level_compare(wb_gt, wb_proc, sheet_name, cell_range, is_CF) ==
    IF sheet_name \notin DOMAIN wb_proc.sheets
    THEN Ok(<<FALSE, Text("worksheet not found")>>)
    ELSE IF sheet_name \notin DOMAIN wb_gt.sheets
    THEN Raise("KeyError")
    ELSE compare_named_cells(wb_gt.sheets[sheet_name], wb_proc.sheets[sheet_name],
                             generate_cell_names(cell_range), is_CF)

-----------------------------------------------------------------------------
(* Files and compare_workbooks *)

(* The files on disk: a function from paths to files, a file being           *)
(* [t |-> "xlsx", wb |-> workbook] or [t |-> "corrupt", err |-> text], which *)
(* openpyxl.load_workbook refuses with that text. A path outside the domain  *)
(* does not exist.                                                           *)
Xlsx(wb) == [t |-> "xlsx", wb |-> wb]
Corrupt(e) == [t |-> "corrupt", err |-> e]
exists(files, path) == path \in DOMAIN files
load_workbook(files, path) ==
    IF ~exists(files, path) THEN Raise("No such file or directory")
    ELSE IF files[path].t = "corrupt" THEN Raise(files[path].err)
    ELSE Ok(files[path].wb)

\* "CF" in proc_file
has_CF(path) == \E i \in 1..(Len(path) - 1) : path[i] = "C" /\ path[i + 1] = "F"

\* s.lstrip("'").rstrip("'")
RECURSIVE lstrip_quote(_)
lstrip_quote(s) == IF s # <<>> /\ Head(s) = "'" THEN lstrip_quote(Tail(s)) ELSE s
RECURSIVE rstrip_quote(_)
rstrip_quote(s) ==
    IF s # <<>> /\ s[Len(s)] = "'" THEN rstrip_quote(SubSeq(s, 1, Len(s) - 1)) ELSE s

\* One iteration of the loop of lines 184-190: the sheet_name and cell_range
\* it leaves behind, or the ValueError of unpacking a split of three or more.
segment_target(wb_gt, sheet_cell_range) ==
    IF contains(sheet_cell_range, "!")
    THEN LET parts == split(sheet_cell_range, "!")
         IN  IF Len(parts) # 2 THEN Raise("ValueError")
             ELSE Ok([sheet_name |-> rstrip_quote(lstrip_quote(parts[1])),
                      cell_range |-> parts[2]])
    ELSE Ok([sheet_name |-> wb_gt.sheetnames[1], cell_range |-> sheet_cell_range])

\* The whole loop: every segment is split in turn, each overwriting the two
\* variables; an exception in any iteration leaves the function.
RECURSIVE segments_loop(_, _, _)
segments_loop_step(wb_gt, sheet_cell_ranges, t) ==
    IF ~IsOk(t) THEN t ELSE segments_loop(wb_gt, Tail(sheet_cell_ranges), t)

segments_loop(wb_gt, sheet_cell_ranges, last) ==
    IF sheet_cell_ranges = <<>> THEN last
    ELSE segments_loop_step(wb_gt, sheet_cell_ranges,
                            segment_target(wb_gt, Head(sheet_cell_ranges)))

\* What comparing inside the loop would do: every segment is compared and the
\* first failing segment decides.
RECURSIVE compare_every_segment(_, _, _, _)
compare_every_segment_next(wb_gt, wb_proc, sheet_cell_ranges, is_CF, r) ==
    IF Len(sheet_cell_ranges) = 1 \/ ~IsOk(r) \/ ~r.v[1] THEN r
    ELSE compare_every_segment(wb_gt, wb_proc, Tail(sheet_cell_ranges), is_CF)
compare_every_segment_step(wb_gt, wb_proc, sheet_cell_ranges, is_CF, t) ==
    IF ~IsOk(t) THEN t
    ELSE compare_every_segment_next(wb_gt, wb_proc, sheet_cell_ranges, is_CF,
             cell_level_compare(wb_gt, wb_proc, t.v.sheet_name, t.v.cell_range, is_CF))
compare_every_segment(wb_gt, wb_proc, sheet_cell_ranges, is_CF) ==
    compare_every_segment_step(wb_gt, wb_proc, sheet_cell_ranges, is_CF,
                               segment_target(wb_gt, Head(sheet_cell_ranges)))

\* Lines 183-191 with the comparison moved into the loop.
compare_segments_each(wb_gt, wb_proc, answer_position, is_CF) ==
    compare_every_segment(wb_gt, wb_proc, split(answer_position, ","), is_CF)

\* Lines 183-191: the loop, then the one comparison after it.
\* Line 191, given the sheet_name and cell_range the loop left (or its exception).
compare_target(wb_gt, wb_proc, t, is_CF) ==
    IF ~IsOk(t) THEN t
    ELSE cell_level_compare(wb_gt, wb_proc, t.v.sheet_name, t.v.cell_range, is_CF)

compare_segments(wb_gt, wb_proc, answer_position, is_CF) ==
    compare_target(wb_gt, wb_proc, segments_loop(wb_gt, split(answer_position, ","), None), is_CF)

\* Lines 172-193, given what the two load_workbook calls returned or raised.
compare_loaded(g, p, answer_position, is_CF) ==
    IF ~IsOk(g) THEN Ok(<<FALSE, Text(g.e)>>)
    ELSE IF ~IsOk(p) THEN Ok(<<FALSE, Text(p.e)>>)
    ELSE compare_segments(g.v, p.v, answer_position, is_CF)

compare_workbooks(files, gt_file, proc_file, instruction_type, answer_position) ==
    IF ~exists(files, proc_file) THEN Ok(<<FALSE, Text("File not exist")>>)
    ELSE compare_loaded(load_workbook(files, gt_file), load_workbook(files, proc_file),
                        answer_position, has_CF(proc_file))

-----------------------------------------------------------------------------
(* The batch state while a single function is exercised *)

BatchIdle ==
    /\ dataset = <<>>
    /\ idx = 0
    /\ eval_results = <<>>
    /\ missing_files = <<>>
    /\ total_evaluated = 0
    /\ total_passed = 0
    /\ result = Unbound
    /\ message = Unbound
    /\ report = None

-----------------------------------------------------------------------------
(* SpecCodec: col_num2name and col_name2num applied one after the other *)

StringsUpTo(S, n) == UNION {[1..k -> S] : k \in 0..n}
ColumnNames == StringsUpTo(UpperSet, MaxNameLen) \ {<<>>}

CodecInit ==
    /\ \/ fn = "col_num2name" /\ arg \in 1..MaxCol
       \/ fn = "col_name2num" /\ arg \in ColumnNames
    /\ mid = None
    /\ ret = None
    /\ pc = "start"
    /\ BatchIdle

Encode ==
    /\ pc = "start" /\ fn = "col_num2name"
    /\ mid' = col_num2name(arg)
    /\ pc' = "encoded"
    /\ UNCHANGED <<fn, arg, ret, batchVars>>

DecodeBack ==
    /\ pc = "encoded"
    /\ ret' = col_name2num(mid)
    /\ pc' = "done"
    /\ UNCHANGED <<fn, arg, mid, batchVars>>

Decode ==
    /\ pc = "start" /\ fn = "col_name2num"
    /\ mid' = col_name2num(arg)
    /\ pc' = "decoded"
    /\ UNCHANGED <<fn, arg, ret, batchVars>>

EncodeBack ==
    /\ pc = "decoded"
    /\ ret' = col_num2name(mid)
    /\ pc' = "done"
    /\ UNCHANGED <<fn, arg, mid, batchVars>>

CodecNext == Encode \/ DecodeBack \/ Decode \/ EncodeBack

SpecCodec == CodecInit /\ [][CodecNext]_vars

\* C9: encoding and decoding of column numbers are mutual inverses: a number
\* n >= 1 encodes to a non-empty name over A..Z (A = 1, Z = 26, AA = 27) that
\* decodes to n again, and a non-empty name over A..Z decodes to a number
\* that encodes to the same name again.
C9_RoundTrip ==
    /\ (fn = "col_num2name" /\ pc \in {"encoded", "done"}) =>
          /\ mid # <<>>
          /\ \A i \in 1..Len(mid) : mid[i] \in UpperSet
          /\ (arg = 1 => mid = <<"A">>)
          /\ (arg = 26 => mid = <<"Z">>)
          /\ (arg = 27 => mid = <<"A", "A">>)
    /\ (fn = "col_num2name" /\ pc = "done") => ret = arg
    /\ (fn = "col_name2num" /\ pc \in {"decoded", "done"}) => mid >= 1
    /\ (fn = "col_name2num" /\ pc = "done") => ret = arg

\* A two-letter column has made the whole round trip, in both directions.
C9_Witness ==
    /\ pc = "done"
    /\ \/ fn = "col_num2name" /\ arg = 52 /\ mid = <<"A", "Z">> /\ ret = 52
       \/ fn = "col_name2num" /\ arg = <<"Z", "Z">> /\ mid = 702

-----------------------------------------------------------------------------
(* SpecRange: parse_cell_range and generate_cell_names on range strings *)

\* Endpoints: every string over a few letters and digits up to a length (with
\* and without a column part or a row part, in any order), and cell names
\* whose columns wrap from one letter to two and whose rows from one digit to two.
RangeChars == {"A", "B", "1", "2"}
ColumnsIn == {<<"A">>, <<"B">>, <<"Z">>, <<"A", "A">>, <<"A", "B">>}
RowsIn == {<<"1">>, <<"2">>, <<"9">>, <<"1", "0">>, <<"1", "1">>}
Endpoints == StringsUpTo(RangeChars, MaxEndpointLen)
                \cup {c \o r : c \in ColumnsIn, r \in RowsIn}
RangeStrings == Endpoints \cup {l \o <<":">> \o r : l \in Endpoints, r \in Endpoints}

RangeInit ==
    /\ fn = "range"
    /\ arg \in RangeStrings
    /\ mid = None
    /\ ret = None
    /\ pc = "start"
    /\ BatchIdle

CallParse ==
    /\ pc = "start"
    /\ ret' = parse_cell_range(arg)
    /\ pc' = "parsed"
    /\ UNCHANGED <<fn, arg, mid, batchVars>>

CallGenerate ==
    /\ pc = "start"
    /\ ret' = generate_cell_names(arg)
    /\ pc' = "generated"
    /\ UNCHANGED <<fn, arg, mid, batchVars>>

RangeNext == CallParse \/ CallGenerate

SpecRange == RangeInit /\ [][RangeNext]_vars

\* The two endpoints of a string with exactly one ':'.
LeftOf(s) == split(s, ":")[1]
RightOf(s) == split(s, ":")[2]
OneColon(s) == Len(split(s, ":")) = 2

\* An endpoint of the form <column name><row>: upper-case letters, then digits.
LetterRun(e) == CHOOSE k \in 0..Len(e) :
    /\ \A i \in 1..k : e[i] \in UpperSet
    /\ k < Len(e) => e[k + 1] \notin UpperSet
IsCellName(e) ==
    /\ LetterRun(e) \in 1..(Len(e) - 1)
    /\ \A i \in (LetterRun(e) + 1)..Len(e) : e[i] \in DigitSet
ColOf(e) == col_name2num(SubSeq(e, 1, LetterRun(e)))
RowOf(e) == int(SubSeq(e, LetterRun(e) + 1, Len(e)))

\* C8: for "<c1><r1>:<c2><r2>" generate_cell_names yields the cells of the
\* rectangle [startCol, endCol] x [startRow, endRow], each exactly once, in
\* column-major order; nothing when an end lies before its start; and a
\* string without ':' comes back unchanged as a one-element sequence.
C8_Enumerate ==
    pc = "generated" =>
        /\ ~contains(arg, ":") => ret = Ok(<<arg>>)
        /\ (OneColon(arg) /\ IsCellName(LeftOf(arg)) /\ IsCellName(RightOf(arg))) =>
              LET sc == ColOf(LeftOf(arg))
                  sr == RowOf(LeftOf(arg))
                  ec == ColOf(RightOf(arg))
                  er == RowOf(RightOf(arg))
                  ncols == IF ec < sc THEN 0 ELSE ec - sc + 1
                  nrows == IF er < sr THEN 0 ELSE er - sr + 1
              IN  /\ IsOk(ret)
                  /\ Len(ret.v) = ncols * nrows
                  /\ \A k \in 1..Len(ret.v) :
                        /\ IsCellName(ret.v[k])
                        /\ ColOf(ret.v[k]) = sc + ((k - 1) \div nrows)
                        /\ RowOf(ret.v[k]) = sr + ((k - 1) % nrows)
                  /\ \A c \in sc..ec, r \in sr..er :
                        \E k \in 1..Len(ret.v) :
                            ColOf(ret.v[k]) = c /\ RowOf(ret.v[k]) = r
                  /\ \A j, k \in 1..Len(ret.v) : ret.v[j] = ret.v[k] => j = k
                  /\ (arg = <<"A", "1", ":", "A", "1">> => ret.v = << <<"A", "1">> >>)
                  /\ (arg = <<"A", "1", ":", "B", "2">> =>
                        ret.v = << <<"A", "1">>, <<"A", "2">>, <<"B", "1">>, <<"B", "2">> >>)

\* A rectangle of several columns and several rows has been enumerated.
C8_Witness ==
    /\ pc = "generated"
    /\ arg = <<"A", "1", ":", "B", "2">>
    /\ IsOk(ret) /\ Len(ret.v) = 4

\* C10 (as claimed): parse_cell_range fails on "<left>:<right>" whenever an
\* endpoint has no digit or has no letter, and never returns a column number
\* that is not a positive integer.
HasDigit(e) == \E i \in 1..Len(e) : e[i] \in DigitSet
HasLetter(e) == \E i \in 1..Len(e) : e[i] \in UpperSet
C10_ParseErrors ==
    (pc = "parsed" /\ OneColon(arg)) =>
        /\ (\E e \in {LeftOf(arg), RightOf(arg)} : ~HasDigit(e) \/ ~HasLetter(e))
              => ~IsOk(ret)
        /\ IsOk(ret) => (ret.v[1][1] >= 1 /\ ret.v[2][1] >= 1)

-----------------------------------------------------------------------------
(* SpecValue: compare_cell_value on pairs of raw cell values *)

\* Numbers in thousandths. A number whose third decimal is 5 is in the set
\* only when the float holds it exactly (a multiple of 1/8), so that the tie
\* of round(x, 2) is a real one and not decided by the binary representation.
RawNumbers == {0, 120, 125, 130, 370, 375, 380, 5000, 5004, 5006, 5010, -5000, -5004}
NumericStrings ==
    {<<"5">>, <<"5", ".", "0">>, <<"5", ".", "0", "0", "4">>, <<"5", ".", "0", "0", "6">>,
     <<"5", ".">>, <<"-", "5">>, <<"0">>, <<".", "1", "2", "5">>}
NonNumericStrings ==
    {<<"a", "b", "c">>, <<"-">>, <<".">>, <<"5", "a">>, <<"5", ".", "0", ".", "0">>,
     <<"1", "2", ":", "3", "0">>}
RawTimes == {[t |-> "time", h |-> 12, m |-> 30, s |-> 0], [t |-> "time", h |-> 9, m |-> 5, s |-> 59]}
RawDatetimes == {[t |-> "datetime", days |-> 5, seconds |-> sec] : sec \in {0, 43200, 43201}}
                  \cup {[t |-> "datetime", days |-> 4, seconds |-> 43200]}
RawValues == {None, Str(<<>>)} \cup {Num(k) : k \in RawNumbers}
               \cup {Str(x) : x \in NumericStrings \cup NonNumericStrings}
               \cup RawTimes \cup RawDatetimes

ValueInit ==
    /\ fn = "compare_cell_value"
    /\ arg \in RawValues \X RawValues
    /\ mid = None
    /\ ret = None
    /\ pc = "start"
    /\ BatchIdle

CallCompareValue ==
    /\ pc = "start"
    /\ ret' = compare_cell_value(arg[1], arg[2])
    /\ pc' = "done"
    /\ UNCHANGED <<fn, arg, mid, batchVars>>

ValueNext == CallCompareValue

SpecValue == ValueInit /\ [][ValueNext]_vars

\* The claim's own reading of a value: which kind it is and what it is worth.
IsEmptyValue(a) == a = None \/ a = Str(<<>>)
IsNumeric(a) == a.t = "num" \/ (a.t = "str" /\ a.s \in NumericStrings)
IsText(a) == a.t = "str" /\ a.s \in NonNumericStrings
Thousandths(a) ==
    IF a.t = "num" THEN a.v
    ELSE CASE a.s = <<"5">> -> 5000
           [] a.s = <<"5", ".", "0">> -> 5000
           [] a.s = <<"5", ".", "0", "0", "4">> -> 5004
           [] a.s = <<"5", ".", "0", "0", "6">> -> 5006
           [] a.s = <<"5", ".">> -> 5000
           [] a.s = <<"-", "5">> -> -5000
           [] a.s = <<"0">> -> 0
           [] a.s = <<".", "1", "2", "5">> -> 125
\* The 2-decimal value nearest to k / 1000 (the even one of two equally near).
Nearest2(k) == CHOOSE h \in -1000..1000 :
    \/ 2 * (k - 10 * h) < 10 /\ 2 * (10 * h - k) < 10
    \/ (k - 10 * h = 5 \/ 10 * h - k = 5) /\ h % 2 = 0
InClaimDomain(a) == IsEmptyValue(a) \/ IsNumeric(a) \/ IsText(a)

\* C6: over absent, empty string, numbers, numeric strings and other strings,
\* compare_cell_value is true exactly when both are absent-or-empty, or both
\* are numeric and round to the same 2-decimal number, or both are the same
\* non-numeric string; so "5" equals 5, 5 equals 5.004 but not 5.006, "abc"
\* does not equal 0, and the relation is symmetric.
C6_ValuesEqual ==
    (pc = "done" /\ InClaimDomain(arg[1]) /\ InClaimDomain(arg[2])) =>
        LET a == arg[1]
            b == arg[2]
        IN  /\ ret = \/ IsEmptyValue(a) /\ IsEmptyValue(b)
                     \/ IsNumeric(a) /\ IsNumeric(b)
                          /\ Nearest2(Thousandths(a)) = Nearest2(Thousandths(b))
                     \/ IsText(a) /\ IsText(b) /\ a = b
            /\ ret = compare_cell_value(b, a)
            /\ (a = Str(<<"5">>) /\ b = Num(5000)) => ret = TRUE
            /\ (a = Num(5000) /\ b = Num(5004)) => ret = TRUE
            /\ (a = Num(5000) /\ b = Num(5006)) => ret = FALSE
            /\ (a = Str(<<"a", "b", "c">>) /\ b = Num(0)) => ret = FALSE

\* A numeric string has been found equal to a number it rounds to.
C6_Witness ==
    /\ pc = "done"
    /\ arg = <<Str(<<"5", ".", "0", "0", "4">>), Num(5000)>>
    /\ ret = TRUE

-----------------------------------------------------------------------------
(* SpecColor: _compare_colors on pairs of colours *)

HexChars == {"0", "F"}
HexColors == {Color(Str(cs)) : cs \in [1..8 -> HexChars]}
Colors == HexColors \cup {None, Color(None), Color(OtherObject)}

ColorInit ==
    /\ fn = "_compare_colors"
    /\ arg \in Colors \X Colors
    /\ mid = None
    /\ ret = None
    /\ pc = "start"
    /\ BatchIdle

CallCompareColors ==
    /\ pc = "start"
    /\ ret' = _compare_colors(arg[1], arg[2])
    /\ pc' = "done"
    /\ UNCHANGED <<fn, arg, mid, batchVars>>

ColorNext == CallCompareColors

SpecColor == ColorInit /\ [][ColorNext]_vars

\* The colour c with its two alpha characters replaced by a.
WithAlpha(c, a) == Color(Str(a \o SubSeq(c.rgb.s, 3, 8)))
\* The claim's reading: a colour that is absent or has no string rgb is black.
RgbPart(c) == IF c \in HexColors THEN SubSeq(c.rgb.s, 3, 8) ELSE <<"0", "0", "0", "0", "0", "0">>

\* C7: the alpha channel never affects the verdict: two colours are equal iff
\* their last 6 characters are identical, whatever the first 2 of either are
\* replaced by; an absent colour or one without a string rgb counts as
\* "00000000".
C7_AlphaIgnored ==
    pc = "done" =>
        /\ ret = (RgbPart(arg[1]) = RgbPart(arg[2]))
        /\ arg[1] \in HexColors =>
              \A a \in [1..2 -> HexChars] : _compare_colors(WithAlpha(arg[1], a), arg[2]) = ret
        /\ arg[2] \in HexColors =>
              \A a \in [1..2 -> HexChars] : _compare_colors(arg[1], WithAlpha(arg[2], a)) = ret
        /\ (arg[1] \notin HexColors /\ arg[2] \notin HexColors) => ret = TRUE

\* Two colours that differ in the alpha channel only have been found equal.
C7_Witness ==
    /\ pc = "done"
    /\ arg[1] = Color(Str(<<"0", "0", "F", "F", "0", "0", "0", "0">>))
    /\ arg[2] = Color(Str(<<"F", "F", "F", "F", "0", "0", "0", "0">>))
    /\ ret = TRUE

-----------------------------------------------------------------------------
(* SpecCells: cell_level_compare on a ground-truth and a produced workbook *)

A1 == <<"A", "1">>
A2 == <<"A", "2">>
B1 == <<"B", "1">>
SheetS == <<"S">>
Red == Color(Str(<<"0", "0", "F", "F", "0", "0", "0", "0">>))
OpaqueRed == Color(Str(<<"F", "F", "F", "F", "0", "0", "0", "0">>))
Green == Color(Str(<<"0", "0", "0", "0", "F", "F", "0", "0">>))

\* The ground truth stores A1, A2 and B1; B2 is read as the default cell.
GtCell == Cell(Num(1000), Red, Black, None)
ProcCells == {Cell(v, fg, bg, fc) : v \in {Num(1004), Num(2000)}, fg \in {OpaqueRed, Green},
                                    bg \in {Black, Green}, fc \in {None, Red}}
GtSheet == [n \in {A1, A2, B1} |-> GtCell]
ProcSheets == [{A1, A2, B1} -> ProcCells]
Workbook(names, sheets) == [sheetnames |-> names, sheets |-> sheets]
CellRanges == {A1 \o <<":">> \o A2, A1 \o <<":">> \o <<"B", "2">>, B1,
               B1 \o <<":">> \o A2, <<"A", ":", "B">>, <<"1", ":", "2">>}

CellsInit ==
    /\ fn = "cell_level_compare"
    /\ \E ps \in ProcSheets, r \in CellRanges, cf \in BOOLEAN, gtHas \in BOOLEAN, procHas \in BOOLEAN :
          arg = [wb_gt |-> IF gtHas THEN Workbook(<<SheetS>>, [n \in {SheetS} |-> GtSheet])
                           ELSE Workbook(<<<<"T">>>>, [n \in {<<"T">>} |-> GtSheet]),
                 wb_proc |-> IF procHas THEN Workbook(<<SheetS>>, [n \in {SheetS} |-> ps])
                             ELSE Workbook(<<<<"T">>>>, [n \in {<<"T">>} |-> ps]),
                 sheet_name |-> SheetS, cell_range |-> r, is_CF |-> cf]
    /\ mid = None
    /\ ret = None
    /\ pc = "start"
    /\ BatchIdle

CallCellLevelCompare ==
    /\ pc = "start"
    /\ ret' = cell_level_compare(arg.wb_gt, arg.wb_proc, arg.sheet_name, arg.cell_range, arg.is_CF)
    /\ pc' = "done"
    /\ UNCHANGED <<fn, arg, mid, batchVars>>

CellsNext == CallCellLevelCompare

SpecCells == CellsInit /\ [][CellsNext]_vars

\* The checks of a range in the claim's order: check 3(k-1)+1 is the value
\* check of the k-th enumerated cell, 3(k-1)+2 its fill check, 3(k-1)+3 its
\* font check; the colour checks exist only under checkStyle.
CheckCellName(cells, c) == cells[((c - 1) \div 3) + 1]
CheckKind(c) == <<"value", "fill", "font">>[((c - 1) % 3) + 1]
CheckFails(gt, proc, cells, c, cf) ==
    LET g == cell_at(gt, CheckCellName(cells, c))
        p == cell_at(proc, CheckCellName(cells, c))
    IN  CASE CheckKind(c) = "value" -> ~compare_cell_value(g.value, p.value)
          [] CheckKind(c) = "fill" -> cf /\ ~compare_fill_color(g.fill, p.fill)
          [] CheckKind(c) = "font" -> cf /\ ~compare_font_color(g.font, p.font)
CheckMessage(gt, proc, cells, c) ==
    LET n == CheckCellName(cells, c)
    IN  CASE CheckKind(c) = "value" ->
               [kind |-> "value", cell |-> n, gt |-> cell_at(gt, n).value,
                proc |-> cell_at(proc, n).value]
          [] CheckKind(c) = "fill" ->
               [kind |-> "fill", cell |-> n, gt |-> cell_at(gt, n).fill.fgColor.rgb,
                proc |-> cell_at(proc, n).fill.fgColor.rgb]
          [] CheckKind(c) = "font" -> [kind |-> "font", cell |-> n]

BothHaveSheet == arg.sheet_name \in DOMAIN arg.wb_gt.sheets
                    /\ arg.sheet_name \in DOMAIN arg.wb_proc.sheets
Enumerates == IsOk(generate_cell_names(arg.cell_range))
                /\ \A k \in 1..Len(generate_cell_names(arg.cell_range).v) :
                      valid_coordinate(generate_cell_names(arg.cell_range).v[k])

\* C5: when the sheet exists in both workbooks (and the range enumerates
\* cells), cell_level_compare returns the outcome of the first failing check,
\* cells in enumeration order and value, fill, font within a cell, the colour
\* checks only under checkStyle; it returns (true, "") iff no check fails.
C5_FirstFailure ==
    (pc = "done" /\ BothHaveSheet /\ Enumerates) =>
        LET gt == arg.wb_gt.sheets[arg.sheet_name]
            proc == arg.wb_proc.sheets[arg.sheet_name]
            cells == generate_cell_names(arg.cell_range).v
            failing == {c \in 1..(3 * Len(cells)) : CheckFails(gt, proc, cells, c, arg.is_CF)}
        IN  /\ IsOk(ret)
            /\ (ret.v = <<TRUE, Text("")>>) <=> (failing = {})
            /\ failing # {} =>
                  LET first == CHOOSE c \in failing : \A d \in failing : c <= d
                  IN  ret.v = <<FALSE, CheckMessage(gt, proc, cells, first)>>

\* A range whose first cell passes under checkStyle and whose second cell
\* has a wrong value and a wrong fill: the value mismatch is the one reported.
C5_Witness ==
    /\ pc = "done" /\ BothHaveSheet /\ arg.is_CF
    /\ arg.cell_range = A1 \o <<":">> \o A2
    /\ arg.wb_proc.sheets[SheetS][A1] = Cell(Num(1004), OpaqueRed, Black, None)
    /\ arg.wb_proc.sheets[SheetS][A2] = Cell(Num(2000), Green, Black, None)
    /\ ret = Ok(<<FALSE, [kind |-> "value", cell |-> A2, gt |-> Num(1000), proc |-> Num(2000)]>>)

-----------------------------------------------------------------------------
(* SpecWorkbooks: compare_workbooks on answer positions of several segments *)

SheetT == <<"T">>
GtFile == <<"g", "t", ".", "x", "l", "s", "x">>
ProcFiles == {<<"o", "u", "t", ".", "x", "l", "s", "x">>, <<"C", "F", "/", "o", "u", "t", ".", "x", "l", "s", "x">>}

\* The ground truth has sheets S (A1, A2) and T (A1); the produced workbook
\* has S, and T or not, and any of its three cells may differ in value.
GtBook == Workbook(<<SheetS, SheetT>>,
                   [n \in {SheetS, SheetT} |->
                       IF n = SheetS THEN [c \in {A1, A2} |-> GtCell] ELSE [c \in {A1} |-> GtCell]])
SameCell == Cell(Num(1004), OpaqueRed, Black, None)
WrongCell == Cell(Num(2000), OpaqueRed, Black, None)
ProcBooks ==
    {Workbook(<<SheetS, SheetT>>,
              [n \in {SheetS, SheetT} |->
                  IF n = SheetS THEN [c \in {A1, A2} |-> IF c = A1 THEN s1 ELSE s2]
                  ELSE [c \in {A1} |-> t1]])
        : s1 \in {SameCell, WrongCell}, s2 \in {SameCell, WrongCell}, t1 \in {SameCell, WrongCell}}
    \cup {Workbook(<<SheetS>>, [n \in {SheetS} |-> [c \in {A1, A2} |-> IF c = A1 THEN s1 ELSE s2]])
        : s1 \in {SameCell, WrongCell}, s2 \in {SameCell, WrongCell}}

Segments == {A1, <<"S", "!", "A", "1">>, <<"'", "S", "'", "!", "A", "1", ":", "A", "2">>, <<"T", "!", "A", "1">>, <<"S", "!", "T", "!", "A", "1">>, <<"S", "!", "A", ":", "B">>}
RECURSIVE JoinComma(_)
JoinComma(segs) ==
    IF Len(segs) = 1 THEN segs[1] ELSE segs[1] \o <<",">> \o JoinComma(Tail(segs))
AnswerPositions == {JoinComma(segs) : segs \in UNION {[1..k -> Segments] : k \in 1..MaxSegments}}

WorkbooksInit ==
    /\ fn = "compare_workbooks"
    /\ \E pb \in ProcBooks, pf \in ProcFiles, ap \in AnswerPositions,
          disk \in {"both", "corrupt", "missing"} :
          arg = [files |-> CASE disk = "both" -> (GtFile :> Xlsx(GtBook)) @@ (pf :> Xlsx(pb))
                             [] disk = "corrupt" ->
                                  (GtFile :> Xlsx(GtBook)) @@ (pf :> Corrupt("File is not a zip file"))
                             [] disk = "missing" -> (GtFile :> Xlsx(GtBook)),
                 gt_file |-> GtFile, proc_file |-> pf, instruction_type |-> "Cell-Level Manipulation",
                 answer_position |-> ap]
    /\ mid = None
    /\ ret = None
    /\ pc = "start"
    /\ BatchIdle

CallCompareWorkbooks ==
    /\ pc = "start"
    /\ ret' = compare_workbooks(arg.files, arg.gt_file, arg.proc_file, arg.instruction_type,
                                arg.answer_position)
    /\ pc' = "done"
    /\ UNCHANGED <<fn, arg, mid, batchVars>>

WorkbooksNext == CallCompareWorkbooks

SpecWorkbooks == WorkbooksInit /\ [][WorkbooksNext]_vars

\* The claim's reading of an answer position: its last segment, and the sheet
\* and range that segment names (the first sheet when it names none).
SegmentsOf(ap) == split(ap, ",")
LastSegment(ap) == SegmentsOf(ap)[Len(SegmentsOf(ap))]
Bangs(seg) == Cardinality({i \in 1..Len(seg) : seg[i] = "!"})
Unquoted(x) == SelectSeq(x, LAMBDA c : c # "'")
LastSheet(ap, wb_gt) ==
    IF Bangs(LastSegment(ap)) = 0 THEN wb_gt.sheetnames[1]
    ELSE Unquoted(split(LastSegment(ap), "!")[1])
LastRange(ap) ==
    IF Bangs(LastSegment(ap)) = 0 THEN LastSegment(ap) ELSE split(LastSegment(ap), "!")[2]
BothLoaded == /\ exists(arg.files, arg.proc_file)
              /\ IsOk(load_workbook(arg.files, arg.gt_file))
              /\ IsOk(load_workbook(arg.files, arg.proc_file))
LastSegmentOutcome ==
    cell_level_compare(arg.files[arg.gt_file].wb, arg.files[arg.proc_file].wb,
                       LastSheet(arg.answer_position, arg.files[arg.gt_file].wb),
                       LastRange(arg.answer_position), has_CF(arg.proc_file))

\* C4 (as claimed): for every answer position of k >= 1 segments (both
\* workbooks opened, the last segment naming a sheet and a range),
\* compare_workbooks gives exactly the outcome of the range comparison of the
\* last segment.
C4_LastSegmentOnly_AsClaimed ==
    (pc = "done" /\ BothLoaded /\ Bangs(LastSegment(arg.answer_position)) <= 1) =>
        ret = LastSegmentOutcome

\* C4 (amended): the same, for answer positions none of whose segments holds
\* more than one '!': a segment with two or more makes compare_workbooks
\* raise ValueError before anything is compared.
C4_LastSegmentOnly ==
    (pc = "done" /\ BothLoaded) =>
        IF \A i \in 1..Len(SegmentsOf(arg.answer_position)) :
               Bangs(SegmentsOf(arg.answer_position)[i]) <= 1
        THEN ret = LastSegmentOutcome
        ELSE ret = Raise("ValueError")

\* Two segments, the produced workbook wrong in the first segment's cell and
\* right in the last segment's cells: the task passes.
C4_Witness ==
    /\ pc = "done" /\ BothLoaded
    /\ arg.answer_position = <<"T", "!", "A", "1">> \o <<",">> \o <<"'", "S", "'", "!", "A", "1", ":", "A", "2">>
    /\ SheetT \in DOMAIN arg.files[arg.proc_file].wb.sheets
    /\ arg.files[arg.proc_file].wb.sheets[SheetT][A1] = WrongCell
    /\ ret = Ok(<<TRUE, Text("")>>)

-----------------------------------------------------------------------------
(* evaluation: the batch evaluator *)

\* Line 228-229: os.path.join(master_folder, f"spreadsheet_bench_{id}_run_1",
\* "output_ooxml.xlsx")
proc_path_of(master_folder, id) ==
    master_folder \o <<"/">> \o <<"s", "p", "r", "e", "a", "d", "s", "h", "e", "e", "t", "_", "b", "e", "n", "c", "h", "_">> \o id \o <<"_", "r", "u", "n", "_", "1">>
        \o <<"/">> \o <<"o", "u", "t", "p", "u", "t", "_", "o", "o", "x", "m", "l", ".", "x", "l", "s", "x">>

\* Line 245: f"{dataset_path}/spreadsheet/{id}/1_{id}_answer.xlsx"
gt_path_of(dataset_path, id) ==
    dataset_path \o <<"/", "s", "p", "r", "e", "a", "d", "s", "h", "e", "e", "t", "/">> \o id \o <<"/", "1", "_">> \o id
        \o <<"_", "a", "n", "s", "w", "e", "r", ".", "x", "l", "s", "x">>

\* The task of the current iteration and its paths.
data == dataset[idx + 1]
proc_path == proc_path_of(arg.master_folder, data.id)
gt_path == gt_path_of(arg.dataset_path, data.id)

\* Lines 247-255: the call, and what the except clause leaves in result and
\* message: result = False, message as it was.
compared == compare_workbooks(arg.files, gt_path, proc_path, data.instruction_type,
                              data.answer_position)
result_after(o) == IF IsOk(o) THEN o.v[1] ELSE FALSE
message_after(o) == IF IsOk(o) THEN o.v[2] ELSE message

\* Line 271 and 280: round(total_passed / total_evaluated * 100, 2), in
\* hundredths of a percent.
success_rate_of(passed, evaluated) ==
    IF evaluated > 0 THEN round_half_even(passed * 10000, evaluated) ELSE 0

\* The slip of counting a missing file as evaluated.
TaskMissing_counted ==
    /\ pc = "loop" /\ idx < Len(dataset)
    /\ ~exists(arg.files, proc_path)
    /\ missing_files' = Append(missing_files, proc_path)
    /\ eval_results' = Append(eval_results,
           [id |-> data.id, instruction_type |-> data.instruction_type,
            result |-> None, message |-> Text("Output file not found")])
    /\ idx' = idx + 1
    /\ total_evaluated' = total_evaluated + 1
    /\ UNCHANGED <<harnessVars, pc, dataset, total_passed, result, message, report>>

\* Lines 232-242: the produced file does not exist.
TaskMissing ==
    /\ pc = "loop" /\ idx < Len(dataset)
    /\ ~exists(arg.files, proc_path)
    /\ missing_files' = Append(missing_files, proc_path)
    /\ eval_results' = Append(eval_results,
           [id |-> data.id, instruction_type |-> data.instruction_type,
            result |-> None, message |-> Text("Output file not found")])
    /\ idx' = idx + 1
    /\ UNCHANGED <<harnessVars, pc, dataset, total_evaluated, total_passed, result, message, report>>

\* Lines 245-268: the produced file exists and the iteration completes.
TaskCompared ==
    /\ pc = "loop" /\ idx < Len(dataset)
    /\ exists(arg.files, proc_path)
    /\ \E o \in {compared} :
          /\ ~(~result_after(o) /\ message_after(o) = Unbound)
          /\ result' = result_after(o)
          /\ message' = message_after(o)
          /\ total_evaluated' = total_evaluated + 1
          /\ total_passed' = IF result_after(o) THEN total_passed + 1 ELSE total_passed
          /\ eval_results' = Append(eval_results,
                 [id |-> data.id, instruction_type |-> data.instruction_type,
                  result |-> IF result_after(o) THEN 1 ELSE 0,
                  message |-> IF ~result_after(o) THEN message_after(o) ELSE Text("")])
    /\ idx' = idx + 1
    /\ UNCHANGED <<harnessVars, pc, dataset, missing_files, report>>

\* Lines 245-266 when the except clause ran and message was never assigned:
\* line 266 reads it and raises UnboundLocalError, which nothing catches.
TaskCrash ==
    /\ pc = "loop" /\ idx < Len(dataset)
    /\ exists(arg.files, proc_path)
    /\ \E o \in {compared} :
          /\ ~result_after(o) /\ message_after(o) = Unbound
          /\ result' = result_after(o)
    /\ total_evaluated' = total_evaluated + 1
    /\ pc' = "crashed"
    /\ UNCHANGED <<harnessVars, dataset, idx, eval_results, missing_files, total_passed,
                   message, report>>

\* Lines 270-296: the summary and the report, once the loop is over.
WriteReport ==
    /\ pc = "loop" /\ idx = Len(dataset)
    /\ report' = [summary |-> [total_tasks |-> Len(dataset),
                               evaluated |-> total_evaluated,
                               missing_files |-> Len(missing_files),
                               passed |-> total_passed,
                               failed |-> total_evaluated - total_passed,
                               success_rate |-> success_rate_of(total_passed, total_evaluated)],
                  missing_files |-> missing_files,
                  results |-> eval_results]
    /\ pc' = "done"
    /\ UNCHANGED <<harnessVars, dataset, idx, eval_results, missing_files, total_evaluated,
                   total_passed, result, message>>

-----------------------------------------------------------------------------
(* Spec: a run of evaluation over a dataset and the files on disk *)

MasterFolders == {<<"/", "r", "u", "n", "s">>, <<"/", "C", "F">>}
DatasetPath == <<"/", "d", "a", "t", "a", "/", "a", "l", "l", "_", "d", "a", "t", "a", "_", "9", "1", "2">>
SheetX == <<"X">>
AllSame == [c \in {A1, A2} |-> SameCell]
ProcGood == Workbook(<<SheetS, SheetT>>,
                     [n \in {SheetS, SheetT} |-> IF n = SheetS THEN AllSame ELSE [c \in {A1} |-> SameCell]])

\* What a task asks and what its produced file is (None: there is none).
Scenarios == {"missing", "pass", "fail", "style", "nosheet", "gt_nosheet", "badrange", "corrupt"}
ScenarioPosition(sc) ==
    CASE sc = "nosheet" -> <<"T", "!", "A", "1">>
      [] sc = "gt_nosheet" -> <<"X", "!", "A", "1">>
      [] sc = "badrange" -> <<"S", "!", "A", ":", "B">>
      [] sc = "fail" -> <<"S", "!", "A", "1">> \o <<",">> \o <<"S", "!", "A", "2">>
      [] OTHER -> <<"'", "S", "'", "!", "A", "1", ":", "A", "2">>
ScenarioProc(sc) ==
    CASE sc = "missing" -> None
      [] sc = "corrupt" -> Corrupt("File is not a zip file")
      [] sc = "fail" -> Xlsx(Workbook(<<SheetS>>, [n \in {SheetS} |-> [c \in {A1, A2} |-> WrongCell]]))
      [] sc = "style" ->
           Xlsx(Workbook(<<SheetS>>,
                         [n \in {SheetS} |-> [c \in {A1, A2} |-> Cell(Num(1000), Green, Black, None)]]))
      [] sc = "nosheet" -> Xlsx(Workbook(<<SheetS>>, [n \in {SheetS} |-> AllSame]))
      [] sc = "gt_nosheet" ->
           Xlsx(Workbook(<<SheetS, SheetX>>, [n \in {SheetS, SheetX} |-> AllSame]))
      [] OTHER -> Xlsx(ProcGood)

TaskId(i) == str(i)
FilesOf(scs, mf) ==
    LET n == Len(scs)
        gts == {gt_path_of(DatasetPath, TaskId(i)) : i \in 1..n}
        procs == {proc_path_of(mf, TaskId(i)) : i \in {j \in 1..n : scs[j] # "missing"}}
    IN  [p \in gts \cup procs |->
            IF p \in gts THEN Xlsx(GtBook)
            ELSE ScenarioProc(scs[CHOOSE i \in 1..n : p = proc_path_of(mf, TaskId(i))])]

Init ==
    /\ fn = "evaluation"
    /\ \E n \in 0..MaxTasks : \E scs \in [1..n -> Scenarios], mf \in MasterFolders :
          /\ dataset = [i \in 1..n |->
                           [id |-> TaskId(i), instruction_type |-> "Cell-Level Manipulation",
                            answer_position |-> ScenarioPosition(scs[i])]]
          /\ arg = [master_folder |-> mf, dataset_path |-> DatasetPath, files |-> FilesOf(scs, mf)]
    /\ mid = None
    /\ ret = None
    /\ pc = "loop"
    /\ idx = 0
    /\ eval_results = <<>>
    /\ missing_files = <<>>
    /\ total_evaluated = 0
    /\ total_passed = 0
    /\ result = Unbound
    /\ message = Unbound
    /\ report = None

Next == TaskMissing \/ TaskCompared \/ TaskCrash \/ WriteReport

Spec == Init /\ [][Next]_vars

\* The i-th task of the dataset, as the claims read it.
ProcPathOfTask(i) == proc_path_of(arg.master_folder, dataset[i].id)
TaskHasFile(i) == exists(arg.files, ProcPathOfTask(i))
TaskOutcome(i) ==
    compare_workbooks(arg.files, gt_path_of(arg.dataset_path, dataset[i].id), ProcPathOfTask(i),
                      dataset[i].instruction_type, dataset[i].answer_position)
TaskRaises(i) == TaskHasFile(i) /\ ~IsOk(TaskOutcome(i))

\* C1 (as claimed): a task whose comparison raises is never fatal, whatever
\* its position: the run does not die, and a finished run has written a
\* report with exactly one result per task of the dataset.
C1_NeverFatal ==
    /\ pc # "crashed"
    /\ pc = "done" => Len(report.results) = Len(dataset)

\* C2 (as claimed): the entry of a task whose comparison raised has result 0
\* and an empty message, never the message of an earlier task.
C2_NoMessageOnException ==
    \A i \in 1..Len(eval_results) :
        TaskRaises(i) => (eval_results[i].result = 0 /\ eval_results[i].message = Text(""))

\* C3: after any prefix of the dataset has been processed, a task without a
\* produced file has result null and its path in missing_files and is
\* counted neither as evaluated nor as passed: evaluated + |missing_files| is
\* the number of tasks processed, 0 <= passed <= evaluated, and the report
\* gives failed = evaluated - passed and success_rate = passed / evaluated *
\* 100 over the evaluated tasks (0 when there is none), here in hundredths
\* of a percent and to the nearest one.
C3_Counts ==
    pc \in {"loop", "done"} =>
        LET evaluated == {i \in 1..idx : TaskHasFile(i)}
            missing == {i \in 1..idx : ~TaskHasFile(i)}
            passed == {i \in evaluated : eval_results[i].result = 1}
        IN  /\ Len(eval_results) = idx
            /\ \A i \in missing :
                  /\ eval_results[i].result = None
                  /\ \E k \in 1..Len(missing_files) : missing_files[k] = ProcPathOfTask(i)
            /\ \A i \in evaluated : eval_results[i].result \in {0, 1}
            /\ total_evaluated = Cardinality(evaluated)
            /\ Len(missing_files) = Cardinality(missing)
            /\ total_evaluated + Len(missing_files) = idx
            /\ total_passed = Cardinality(passed)
            /\ 0 <= total_passed /\ total_passed <= total_evaluated
            /\ pc = "done" =>
                  /\ idx = Len(dataset)
                  /\ report.summary.total_tasks = Len(dataset)
                  /\ report.summary.evaluated = Cardinality(evaluated)
                  /\ report.summary.missing_files = Cardinality(missing)
                  /\ report.summary.passed = Cardinality(passed)
                  /\ report.summary.failed = Cardinality(evaluated) - Cardinality(passed)
                  /\ Cardinality(evaluated) = 0 => report.summary.success_rate = 0
                  /\ Cardinality(evaluated) > 0 =>
                        LET r == report.summary.success_rate
                            num == Cardinality(passed) * 10000
                            den == Cardinality(evaluated)
                        IN  /\ (2 * r - 1) * den <= 2 * num
                            /\ 2 * num <= (2 * r + 1) * den

\* A report written after a missing file, a passed task and a failed one.
C3_Witness ==
    /\ pc = "done"
    /\ report.summary = [total_tasks |-> 3, evaluated |-> 2, missing_files |-> 1, passed |-> 1,
                         failed |-> 1, success_rate |-> 5000]
    /\ report.results[1].result = None

=============================================================================
